---- MODULE Spec2Model ----
(***************************************************************************)
(* The two sink connectors of neumai/SinkConnectors: PineconeSink and      *)
(* SupabaseSink.  An adapter is constructed with its configuration and is  *)
(* then called (validation, store, search, info) by an orchestrator.       *)
(* Every handler is modelled step by step: one action per call it makes    *)
(* to the client library, with both of that call's outcomes (it returns,   *)
(* it raises) and the handler's try / except / finally around it.  The     *)
(* hosted services are the environment: they hold the stored vectors and   *)
(* may fail any request.                                                   *)
(***************************************************************************)
EXTENDS Integers, Sequences, FiniteSets, TLC

(* ------------------------------ bounds --------------------------------- *)

\* longest vectors_to_store of a call under Spec (calls repeat there)
MaxStoreLen == 2
\* longest vectors_to_store of the single store call under SpecStore
MaxVectors == 70
\* largest number_of_results of a search
MaxTopK == 2

(* ------------------------ constants of the code ------------------------ *)

\* PineconeSink.store: batch_size = 32
batch_size == 32

PipelineIds == {"a", "b"}

\* Optional[str]: None is the empty tuple, a configured name s is <<s>>
None == <<>>
Some(s) == <<s>>

\* the values of namespace (PineconeSink) / collection_name (SupabaseSink)
ConfiguredNames == {None, Some("custom"), Some("pipeline_b")}

\* every namespace / collection a request of the model can name
Names == {"custom"} \cup {"pipeline_" \o p : p \in PipelineIds}

SinkKinds == {"PineconeSink", "SupabaseSink"}

(* ------------------------------ state ---------------------------------- *)

VARIABLES
  sink_name,          \* which adapter was constructed
  configured,         \* its namespace / collection_name field (Optional[str])
  present,            \* backend: the namespaces / collections that exist
  stored,             \* backend: name -> ids of the vectors stored under it
  pc,                 \* position of the running handler; "idle" / "done" between calls
  op,                 \* the handler called last
  pipeline_id,        \* its pipeline_id argument
  vectors_to_store,   \* its vectors_to_store argument (the vectors' ids)
  number_of_results,  \* its number_of_results argument
  namespace,          \* local namespace / collection_name after resolution
  i,                  \* PineconeSink.store: loop index
  vectors_stored,     \* PineconeSink.store: accumulator
  results,            \* search: number of rows the query returned
  client,             \* SupabaseSink: state of vx ("none", "connected", "disconnected")
  disconnects,        \* SupabaseSink: vx.disconnect() calls of this operation
  requests,           \* the requests this operation made to the client library, in order
  acknowledged,       \* store: number of vectors the service acknowledged to this call
  raised,             \* exception the call ended with ("" when none)
  returned,           \* value the call returned
  pinecone_config,    \* the pinecone module's configuration, set by pinecone.init
  threads,            \* concurrent PineconeSink operations (SpecConc)
  backend_calls       \* the requests those operations made, with the credentials used

configVars == <<sink_name, configured>>
backendVars == <<present, stored>>
callVars == <<op, pipeline_id, vectors_to_store, number_of_results>>
seqVars == <<sink_name, configured, present, stored, pc, op, pipeline_id,
             vectors_to_store, number_of_results, namespace, i, vectors_stored,
             results, client, disconnects, requests, acknowledged, raised, returned>>
concVars == <<pinecone_config, threads, backend_calls>>
vars == <<sink_name, configured, present, stored, pc, op, pipeline_id,
          vectors_to_store, number_of_results, namespace, i, vectors_stored,
          results, client, disconnects, requests, acknowledged, raised, returned,
          pinecone_config, threads, backend_calls>>

(* ----------------------------- helpers --------------------------------- *)

Min(a, b) == IF a < b THEN a ELSE b

Range(s) == {s[k] : k \in 1..Len(s)}

\* a list of n vectors; a vector is identified by its id
Vectors(n) == [k \in 1..n |-> k]

\* values a call can return
Unset == [type |-> "unset", n |-> 0]
PyNone == [type |-> "None", n |-> 0]
PyTrue == [type |-> "bool", n |-> 1]
PyInt(n) == [type |-> "int", n |-> n]
PyList(n) == [type |-> "list", n |-> n]
NeumSinkInfo(n) == [type |-> "NeumSinkInfo", n |-> n]

\* the exception classes of neumai.Shared.Exceptions the two files import
ConnectionException(s) ==
  IF s = "PineconeSink" THEN "PineconeConnectionException" ELSE "SupabaseConnectionException"
InsertionException(s) ==
  IF s = "PineconeSink" THEN "PineconeInsertionException" ELSE "SupabaseInsertionException"
QueryException(s) ==
  IF s = "PineconeSink" THEN "PineconeQueryException" ELSE "SupabaseQueryException"
IndexInfoException(s) ==
  IF s = "PineconeSink" THEN "PineconeIndexInfoException" ELSE "SupabaseIndexInfoException"

\* an exception of the client library that no except clause caught
RawError == "RawError"

\* if namespace == None: namespace = f"pipeline_{pipeline_id}"
ResolveIgnoringConfigured(name, pid) == "pipeline_" \o pid
Resolve(name, pid) == IF name = None THEN "pipeline_" \o pid ELSE name[1]

\* the vectors under a name, none when the name does not exist
StoredIn(name) == IF name \in present THEN stored[name] ELSE {}

\* one entry of the request log
Request(call, name, records, c, ok) ==
  [call |-> call, name |-> name, records |-> records, client |-> c, ok |-> ok]

Idle == {"idle", "done"}

\* a call begins: arguments bound, locals and the call's log reset
Begin(from, k, pid, vs, topk) ==
  /\ pc \in from
  /\ op' = k
  /\ pipeline_id' = pid
  /\ vectors_to_store' = vs
  /\ number_of_results' = topk
  /\ i' = 0
  /\ vectors_stored' = 0
  /\ results' = 0
  /\ disconnects' = 0
  /\ acknowledged' = 0

Goto(l) == pc' = l /\ raised' = "" /\ returned' = Unset
Raise(e) == pc' = "done" /\ raised' = e /\ returned' = Unset
Return(v) == pc' = "done" /\ raised' = "" /\ returned' = v

\* vx.disconnect()
Disconnect == client' = "disconnected" /\ disconnects' = disconnects + 1

(* --------------------------- PineconeSink ------------------------------ *)

\* validation: pinecone.init(api_key=..., environment=...)
PineconeValidationInit(from) ==
  /\ sink_name = "PineconeSink"
  /\ Begin(from, "validation", pipeline_id, <<>>, 0)
  /\ namespace' = ""
  /\ \E ok \in BOOLEAN :
       /\ requests' = <<Request("init", None, <<>>, "none", ok)>>
       /\ IF ok THEN Goto("pv_index") ELSE Raise(ConnectionException(sink_name))
  /\ UNCHANGED <<configVars, backendVars, client, concVars>>

\* validation: index = pinecone.Index(index_name=self.index)
PineconeValidationIndex ==
  /\ pc = "pv_index"
  /\ \E ok \in BOOLEAN :
       /\ requests' = Append(requests, Request("Index", None, <<>>, client, ok))
       /\ IF ok THEN Goto("pv_stats") ELSE Raise(ConnectionException(sink_name))
  /\ UNCHANGED <<configVars, backendVars, callVars, namespace, i, vectors_stored,
                 results, client, disconnects, acknowledged, concVars>>

\* validation: index.describe_index_stats(); return True
PineconeValidationStats ==
  /\ pc = "pv_stats"
  /\ \E ok \in BOOLEAN :
       /\ requests' = Append(requests, Request("describe_index_stats", None, <<>>, client, ok))
       /\ IF ok THEN Return(PyTrue) ELSE Raise(ConnectionException(sink_name))
  /\ UNCHANGED <<configVars, backendVars, callVars, namespace, i, vectors_stored,
                 results, client, disconnects, acknowledged, concVars>>

\* store: namespace resolved, then pinecone.init(...)
PineconeStoreInit(from, lens) ==
  /\ sink_name = "PineconeSink"
  /\ \E pid \in PipelineIds, n \in lens :
       /\ Begin(from, "store", pid, Vectors(n), 0)
       /\ namespace' = Resolve(configured, pid)
  /\ \E ok \in BOOLEAN :
       /\ requests' = <<Request("init", None, <<>>, "none", ok)>>
       /\ IF ok THEN Goto("ps_index") ELSE Raise(InsertionException(sink_name))
  /\ UNCHANGED <<configVars, backendVars, client, concVars>>

\* store: index = pinecone.Index(index_name=index); vectors_stored = 0
PineconeStoreIndex ==
  /\ pc = "ps_index"
  /\ \E ok \in BOOLEAN :
       /\ requests' = Append(requests, Request("Index", None, <<>>, client, ok))
       /\ IF ok THEN Goto("ps_loop") ELSE Raise(InsertionException(sink_name))
  /\ i' = 0
  /\ vectors_stored' = 0
  /\ UNCHANGED <<configVars, backendVars, callVars, namespace,
                 results, client, disconnects, acknowledged, concVars>>

\* i_end = min(i + batch_size, len(vectors_to_store))
BatchEndShort(i0, n) == Min(i0 + batch_size - 1, n)
BatchEnd(i0, n) == Min(i0 + batch_size, n)

\* vectors_stored += result['upserted_count']
AccumulateOverwrite(total, upserted_count) == upserted_count
Accumulate(total, upserted_count) == total + upserted_count

\* an upsert raised: the loop is left and the except clause raises
\* PineconeInsertionException
UpsertSwallowed ==
  /\ Goto("ps_loop")
  /\ i' = i + batch_size
  /\ UNCHANGED <<present, stored, vectors_stored, acknowledged>>
UpsertRaised ==
  /\ Raise(InsertionException(sink_name))
  /\ UNCHANGED <<present, stored, i, vectors_stored, acknowledged>>

\* store: one iteration of the loop over range(0, len(vectors_to_store), batch_size).
\* The service stores the records of an upsert it accepts and answers with an
\* upserted_count, which the code adds up as it is reported.
PineconeStoreUpsert ==
  /\ pc = "ps_loop"
  /\ i < Len(vectors_to_store)
  /\ LET i_end == BatchEnd(i, Len(vectors_to_store))
         vector_batch == SubSeq(vectors_to_store, i + 1, i_end)
     IN \E ok \in BOOLEAN :
          /\ requests' = Append(requests,
                            Request("upsert", Some(namespace), vector_batch, client, ok))
          /\ IF ok
               THEN \E upserted_count \in 0..Len(vector_batch) :
                      /\ present' = present \cup {namespace}
                      /\ stored' = [stored EXCEPT ![namespace] = @ \cup Range(vector_batch)]
                      /\ acknowledged' = acknowledged + upserted_count
                      /\ vectors_stored' = Accumulate(vectors_stored, upserted_count)
                      /\ i' = i + batch_size
                      /\ Goto("ps_loop")
               ELSE UpsertRaised
  /\ UNCHANGED <<configVars, callVars, namespace, results, client, disconnects, concVars>>

\* store: the loop is over; return int(vectors_stored)
PineconeStoreReturn ==
  /\ pc = "ps_loop"
  /\ i >= Len(vectors_to_store)
  /\ Return(PyInt(vectors_stored))
  /\ UNCHANGED <<configVars, backendVars, callVars, namespace, i, vectors_stored,
                 results, client, disconnects, requests, acknowledged, concVars>>

\* search: namespace resolved, then pinecone.init(...)
PineconeSearchInit(from) ==
  /\ sink_name = "PineconeSink"
  /\ \E pid \in PipelineIds, k \in 1..MaxTopK :
       /\ Begin(from, "search", pid, <<>>, k)
       /\ namespace' = Resolve(configured, pid)
  /\ \E ok \in BOOLEAN :
       /\ requests' = <<Request("init", None, <<>>, "none", ok)>>
       /\ IF ok THEN Goto("pq_index") ELSE Raise(QueryException(sink_name))
  /\ UNCHANGED <<configVars, backendVars, client, concVars>>

\* search: index = pinecone.Index(index)
PineconeSearchIndex ==
  /\ pc = "pq_index"
  /\ \E ok \in BOOLEAN :
       /\ requests' = Append(requests, Request("Index", None, <<>>, client, ok))
       /\ IF ok THEN Goto("pq_query") ELSE Raise(QueryException(sink_name))
  /\ UNCHANGED <<configVars, backendVars, callVars, namespace, i, vectors_stored,
                 results, client, disconnects, acknowledged, concVars>>

\* search: index.query(vector, top_k, namespace, ...)["matches"].  The code makes
\* no check that the namespace exists; the service answers a query on a namespace
\* that holds nothing with no matches.
PineconeSearchQuery ==
  /\ pc = "pq_query"
  /\ \E ok \in BOOLEAN :
       /\ requests' = Append(requests, Request("query", Some(namespace), <<>>, client, ok))
       /\ IF ok
            THEN /\ results' = Min(number_of_results, Cardinality(StoredIn(namespace)))
                 /\ Goto("pq_convert")
            ELSE /\ results' = results
                 /\ Raise(QueryException(sink_name))
  /\ UNCHANGED <<configVars, backendVars, callVars, namespace, i, vectors_stored,
                 client, disconnects, acknowledged, concVars>>

\* search: the loop building NeumSearchResult(id=result["id"], ...) from the
\* matches, after the try statement; it can only raise when there is a match
PineconeSearchConvert ==
  /\ pc = "pq_convert"
  /\ \E ok \in BOOLEAN :
       /\ ok \/ results > 0
       /\ IF ok THEN Return(PyList(results)) ELSE Raise(RawError)
  /\ UNCHANGED <<configVars, backendVars, callVars, namespace, i, vectors_stored,
                 results, client, disconnects, requests, acknowledged, concVars>>

\* info: namespace resolved, then pinecone.init(...)
PineconeInfoInit(from) ==
  /\ sink_name = "PineconeSink"
  /\ \E pid \in PipelineIds :
       /\ Begin(from, "info", pid, <<>>, 0)
       /\ namespace' = Resolve(configured, pid)
  /\ \E ok \in BOOLEAN :
       /\ requests' = <<Request("init", None, <<>>, "none", ok)>>
       /\ IF ok THEN Goto("pi_index") ELSE Raise(IndexInfoException(sink_name))
  /\ UNCHANGED <<configVars, backendVars, client, concVars>>

\* info: index = pinecone.Index(index)
PineconeInfoIndex ==
  /\ pc = "pi_index"
  /\ \E ok \in BOOLEAN :
       /\ requests' = Append(requests, Request("Index", None, <<>>, client, ok))
       /\ IF ok THEN Goto("pi_stats") ELSE Raise(IndexInfoException(sink_name))
  /\ UNCHANGED <<configVars, backendVars, callVars, namespace, i, vectors_stored,
                 results, client, disconnects, acknowledged, concVars>>

\* info: namespaces = index.describe_index_stats()["namespace"];
\* if namespace in namespaces: return NeumSinkInfo(namespaces[namespace]["vector_count"]);
\* otherwise the function body ends, which returns None
PineconeInfoStats ==
  /\ pc = "pi_stats"
  /\ \E ok \in BOOLEAN :
       IF ok
         THEN /\ requests' = Append(Append(requests,
                                Request("describe_index_stats", None, <<>>, client, TRUE)),
                                Request("namespaces[]", Some(namespace), <<>>, client, TRUE))
              /\ IF namespace \in present
                   THEN Return(NeumSinkInfo(Cardinality(stored[namespace])))
                   ELSE Return(PyNone)
         ELSE /\ requests' = Append(requests,
                                Request("describe_index_stats", None, <<>>, client, FALSE))
              /\ Raise(IndexInfoException(sink_name))
  /\ UNCHANGED <<configVars, backendVars, callVars, namespace, i, vectors_stored,
                 results, client, disconnects, acknowledged, concVars>>

(* --------------------------- SupabaseSink ------------------------------ *)

\* validation: vx = vecs.create_client(self.database_connection); return True.
\* The handler makes no disconnect call.
SupabaseValidationCreateClient(from) ==
  /\ sink_name = "SupabaseSink"
  /\ Begin(from, "validation", pipeline_id, <<>>, 0)
  /\ namespace' = ""
  /\ \E ok \in BOOLEAN :
       /\ requests' = <<Request("create_client", None, <<>>, "none", ok)>>
       /\ IF ok
            THEN client' = "connected" /\ Return(PyTrue)
            ELSE client' = "none" /\ Raise(ConnectionException(sink_name))
  /\ UNCHANGED <<configVars, backendVars, concVars>>

\* store: vx = vecs.create_client(database_connection), before the try statement;
\* then, inside it, the collection name is resolved
SupabaseStoreCreateClient(from, lens) ==
  /\ sink_name = "SupabaseSink"
  /\ \E pid \in PipelineIds, n \in lens, ok \in BOOLEAN :
       /\ Begin(from, "store", pid, Vectors(n), 0)
       /\ requests' = <<Request("create_client", None, <<>>, "none", ok)>>
       /\ IF ok
            THEN /\ client' = "connected"
                 /\ namespace' = Resolve(configured, pid)
                 /\ Goto("ss_collection")
            ELSE /\ client' = "none"
                 /\ namespace' = ""
                 /\ Raise(RawError)
  /\ UNCHANGED <<configVars, backendVars, concVars>>

\* store: dimensions = len(vectors_to_store[0].vector), an IndexError on an empty
\* list; db = vx.get_or_create_collection(name=collection_name, dimension=dimensions).
\* except: raise SupabaseInsertionException; finally: vx.disconnect()
SupabaseStoreGetOrCreateCollection ==
  /\ pc = "ss_collection"
  /\ IF Len(vectors_to_store) = 0
       THEN /\ Raise(InsertionException(sink_name))
            /\ Disconnect
            /\ UNCHANGED <<present, requests>>
       ELSE \E ok \in BOOLEAN :
              /\ requests' = Append(requests, Request("get_or_create_collection",
                                                  Some(namespace), <<>>, client, ok))
              /\ IF ok
                   THEN /\ present' = present \cup {namespace}
                        /\ Goto("ss_upsert")
                        /\ UNCHANGED <<client, disconnects>>
                   ELSE /\ present' = present
                        /\ Raise(InsertionException(sink_name))
                        /\ Disconnect
  /\ UNCHANGED <<configVars, stored, callVars, namespace, i, vectors_stored,
                 results, acknowledged, concVars>>

\* store: db.upsert(records=to_upsert) with every vector in one call;
\* finally: vx.disconnect(); return len(vectors_to_store)
SupabaseStoreUpsert ==
  /\ pc = "ss_upsert"
  /\ \E ok \in BOOLEAN :
       /\ requests' = Append(requests,
                         Request("upsert", Some(namespace), vectors_to_store, client, ok))
       /\ IF ok
            THEN /\ stored' = [stored EXCEPT ![namespace] = @ \cup Range(vectors_to_store)]
                 /\ acknowledged' = Len(vectors_to_store)
                 /\ Return(PyInt(Len(vectors_to_store)))
            ELSE /\ UNCHANGED <<stored, acknowledged>>
                 /\ Raise(InsertionException(sink_name))
  /\ Disconnect
  /\ UNCHANGED <<configVars, present, callVars, namespace, i, vectors_stored,
                 results, concVars>>

\* search: vx = vecs.create_client(database_connection), outside any try
\* statement; then the collection name is resolved
SupabaseSearchCreateClient(from) ==
  /\ sink_name = "SupabaseSink"
  /\ \E pid \in PipelineIds, k \in 1..MaxTopK, ok \in BOOLEAN :
       /\ Begin(from, "search", pid, <<>>, k)
       /\ requests' = <<Request("create_client", None, <<>>, "none", ok)>>
       /\ IF ok
            THEN /\ client' = "connected"
                 /\ namespace' = Resolve(configured, pid)
                 /\ Goto("sq_collection")
            ELSE /\ client' = "none"
                 /\ namespace' = ""
                 /\ Raise(RawError)
  /\ UNCHANGED <<configVars, backendVars, concVars>>

\* search: db = vx.get_collection(name=collection_name), which raises when the
\* collection does not exist; except: raise SupabaseQueryException;
\* finally: vx.disconnect(), on the success path too
SupabaseSearchGetCollection ==
  /\ pc = "sq_collection"
  /\ \E ok \in BOOLEAN :
       /\ ok => namespace \in present
       /\ requests' = Append(requests,
                         Request("get_collection", Some(namespace), <<>>, client, ok))
       /\ IF ok THEN Goto("sq_query") ELSE Raise(QueryException(sink_name))
  /\ Disconnect
  /\ UNCHANGED <<configVars, backendVars, callVars, namespace, i, vectors_stored,
                 results, acknowledged, concVars>>

\* search: results = db.query(data=vector, ..., limit=number_of_results), on the
\* collection handle of the client disconnected by the step before;
\* except: raise SupabaseQueryException; finally: vx.disconnect()
SupabaseSearchQuery ==
  /\ pc = "sq_query"
  /\ \E ok \in BOOLEAN :
       /\ requests' = Append(requests, Request("query", Some(namespace), <<>>, client, ok))
       /\ IF ok
            THEN /\ results' = Min(number_of_results, Cardinality(StoredIn(namespace)))
                 /\ Goto("sq_convert")
            ELSE /\ results' = results
                 /\ Raise(QueryException(sink_name))
  /\ Disconnect
  /\ UNCHANGED <<configVars, backendVars, callVars, namespace, i, vectors_stored,
                 acknowledged, concVars>>

\* search: the loop building NeumSearchResult(id=str(result[0]), ...) from the
\* rows, after the try statements; it can only raise when there is a row
SupabaseSearchConvert ==
  /\ pc = "sq_convert"
  /\ \E ok \in BOOLEAN :
       /\ ok \/ results > 0
       /\ IF ok THEN Return(PyList(results)) ELSE Raise(RawError)
  /\ UNCHANGED <<configVars, backendVars, callVars, namespace, i, vectors_stored,
                 results, client, disconnects, requests, acknowledged, concVars>>

\* info: vx = vecs.create_client(database_connection), outside any try statement;
\* then the collection name is resolved
SupabaseInfoCreateClient(from) ==
  /\ sink_name = "SupabaseSink"
  /\ \E pid \in PipelineIds, ok \in BOOLEAN :
       /\ Begin(from, "info", pid, <<>>, 0)
       /\ requests' = <<Request("create_client", None, <<>>, "none", ok)>>
       /\ IF ok
            THEN /\ client' = "connected"
                 /\ namespace' = Resolve(configured, pid)
                 /\ Goto("si_collection")
            ELSE /\ client' = "none"
                 /\ namespace' = ""
                 /\ Raise(RawError)
  /\ UNCHANGED <<configVars, backendVars, concVars>>

\* info: db = vx.get_collection(name=collection_name);
\* except: raise SupabaseIndexInfoException; finally: vx.disconnect()
SupabaseInfoGetCollection ==
  /\ pc = "si_collection"
  /\ \E ok \in BOOLEAN :
       /\ ok => namespace \in present
       /\ requests' = Append(requests,
                         Request("get_collection", Some(namespace), <<>>, client, ok))
       /\ IF ok THEN Goto("si_count") ELSE Raise(IndexInfoException(sink_name))
  /\ Disconnect
  /\ UNCHANGED <<configVars, backendVars, callVars, namespace, i, vectors_stored,
                 results, acknowledged, concVars>>

\* info: number_of_vectors = db.table.select('count(*)')[0].count, after the try
\* statement and after the disconnect; return NeumSinkInfo(number_of_vectors)
SupabaseInfoCount ==
  /\ pc = "si_count"
  /\ \E ok \in BOOLEAN :
       /\ requests' = Append(requests, Request("count", Some(namespace), <<>>, client, ok))
       /\ IF ok
            THEN Return(NeumSinkInfo(Cardinality(StoredIn(namespace))))
            ELSE Raise(RawError)
  /\ UNCHANGED <<configVars, backendVars, callVars, namespace, i, vectors_stored,
                 results, client, disconnects, acknowledged, concVars>>

(* ------------------ concurrent PineconeSink operations ----------------- *)

\* two PineconeSink instances, each called from its own thread
Threads == {1, 2}

\* most upsert requests of a store call of a thread
MaxConcBatches == 2

\* the api_key / environment fields of the instance a thread calls
Credentials(t) == IF t = 1 THEN "key-1@env-1" ELSE "key-2@env-2"

Handlers == {"validation", "store", "search", "info"}

\* the request a handler makes on its index handle
RequestOf(h) ==
  CASE h = "validation" -> "describe_index_stats"
    [] h = "store" -> "upsert"
    [] h = "search" -> "query"
    [] h = "info" -> "describe_index_stats"

\* pinecone.init(api_key=api_key, environment=environment): the credentials go
\* into the configuration of the pinecone module, which the process shares
ConcInit(t) ==
  /\ threads[t].pc = "start"
  /\ \E h \in Handlers, n \in 0..MaxConcBatches :
       /\ h # "store" => n = 1
       /\ threads' = [threads EXCEPT ![t] =
                        [pc |-> "index", handler |-> h, handle |-> None, left |-> n]]
  /\ pinecone_config' = Some(Credentials(t))
  /\ UNCHANGED <<seqVars, backend_calls>>

\* index = pinecone.Index(index_name=index): no credentials are passed, the
\* handle is built from the module's configuration as it is at this moment
ConcIndex(t) ==
  /\ threads[t].pc = "index"
  /\ threads' = [threads EXCEPT ![t].pc = "request", ![t].handle = pinecone_config]
  /\ backend_calls' = backend_calls \cup
       {[thread |-> t, call |-> "Index", credentials |-> pinecone_config[1]]}
  /\ UNCHANGED <<seqVars, pinecone_config>>

\* index.upsert(...) / index.query(...) / index.describe_index_stats(), made
\* with the credentials the handle holds
ConcRequest(t) ==
  /\ threads[t].pc = "request"
  /\ threads[t].left > 0
  /\ threads' = [threads EXCEPT ![t].left = @ - 1]
  /\ backend_calls' = backend_calls \cup
       {[thread |-> t, call |-> RequestOf(threads[t].handler),
         credentials |-> threads[t].handle[1]]}
  /\ UNCHANGED <<seqVars, pinecone_config>>

\* the handler returns
ConcReturn(t) ==
  /\ threads[t].pc = "request"
  /\ threads[t].left = 0
  /\ threads' = [threads EXCEPT ![t].pc = "done"]
  /\ UNCHANGED <<seqVars, pinecone_config, backend_calls>>

(* --------------------------- specifications ---------------------------- *)

\* an adapter has been constructed with its configuration; the service it talks
\* to holds nothing yet; no call is running
Init ==
  /\ sink_name \in SinkKinds
  /\ configured \in ConfiguredNames
  /\ present = {}
  /\ stored = [name \in Names |-> {}]
  /\ pc = "idle"
  /\ op = "none"
  /\ pipeline_id = ""
  /\ vectors_to_store = <<>>
  /\ number_of_results = 0
  /\ namespace = ""
  /\ i = 0
  /\ vectors_stored = 0
  /\ results = 0
  /\ client = "none"
  /\ disconnects = 0
  /\ requests = <<>>
  /\ acknowledged = 0
  /\ raised = ""
  /\ returned = Unset
  /\ pinecone_config = None
  /\ threads = [t \in Threads |->
                  [pc |-> "start", handler |-> "none", handle |-> None, left |-> 0]]
  /\ backend_calls = {}

\* the orchestrator calls the adapter again and again, one call at a time
Next ==
  \/ PineconeValidationInit(Idle)
  \/ PineconeValidationIndex
  \/ PineconeValidationStats
  \/ PineconeStoreInit(Idle, 0..MaxStoreLen)
  \/ PineconeStoreIndex
  \/ PineconeStoreUpsert
  \/ PineconeStoreReturn
  \/ PineconeSearchInit(Idle)
  \/ PineconeSearchIndex
  \/ PineconeSearchQuery
  \/ PineconeSearchConvert
  \/ PineconeInfoInit(Idle)
  \/ PineconeInfoIndex
  \/ PineconeInfoStats
  \/ SupabaseValidationCreateClient(Idle)
  \/ SupabaseStoreCreateClient(Idle, 0..MaxStoreLen)
  \/ SupabaseStoreGetOrCreateCollection
  \/ SupabaseStoreUpsert
  \/ SupabaseSearchCreateClient(Idle)
  \/ SupabaseSearchGetCollection
  \/ SupabaseSearchQuery
  \/ SupabaseSearchConvert
  \/ SupabaseInfoCreateClient(Idle)
  \/ SupabaseInfoGetCollection
  \/ SupabaseInfoCount

Spec == Init /\ [][Next]_vars

\* one store call of up to MaxVectors vectors on a freshly constructed adapter
NextStore ==
  \/ PineconeStoreInit({"idle"}, 0..MaxVectors)
  \/ PineconeStoreIndex
  \/ PineconeStoreUpsert
  \/ PineconeStoreReturn
  \/ SupabaseStoreCreateClient({"idle"}, 0..MaxVectors)
  \/ SupabaseStoreGetOrCreateCollection
  \/ SupabaseStoreUpsert

SpecStore == Init /\ [][NextStore]_vars

\* two threads, each making one call on its own PineconeSink instance
NextConc == \E t \in Threads : ConcInit(t) \/ ConcIndex(t) \/ ConcRequest(t) \/ ConcReturn(t)

SpecConc == Init /\ [][NextConc]_vars

(* ------------------------------ claims --------------------------------- *)

\* the requests of the running (or last) call that name a namespace / collection
Named == {k \in 1..Len(requests) : requests[k].name # None}

\* the upsert requests of the running (or last) call, in the order they were made
Upserts == SelectSeq(requests, LAMBDA r : r.call = "upsert")

RECURSIVE Concat(_)
Concat(batches) ==
  IF batches = <<>> THEN <<>> ELSE Head(batches).records \o Concat(Tail(batches))

\* the domain exception of the handler called last
DomainException ==
  CASE op = "validation" -> ConnectionException(sink_name)
    [] op = "store" -> InsertionException(sink_name)
    [] op = "search" -> QueryException(sink_name)
    [] op = "info" -> IndexInfoException(sink_name)
    [] OTHER -> ""

\* C1: every request of store, search and info that names a namespace or
\* collection names the configured one when one is configured, whatever the
\* pipeline_id, and "pipeline_" followed by the pipeline_id when none is.
C1_ResolvedName ==
  \A k \in Named :
    /\ configured # None => requests[k].name[1] = configured[1]
    /\ configured = None => requests[k].name[1] = "pipeline_" \o pipeline_id

\* C1 witness: a store finished whose upsert went to the configured namespace
\* "pipeline_b" although the call's pipeline_id was "a"
C1_Witness ==
  /\ pc = "done"
  /\ op = "store"
  /\ configured = Some("pipeline_b")
  /\ pipeline_id = "a"
  /\ \E k \in Named : requests[k].call = "upsert" /\ requests[k].name = Some("pipeline_b")

\* C2: a PineconeSink.store of N vectors that returned made ceil(N/32) upsert
\* requests, each of at most 32 records and all but the last of exactly 32,
\* whose records put end to end are the input list; 40 vectors go out as 32 + 8.
C2_Batches ==
  (sink_name = "PineconeSink" /\ op = "store" /\ pc = "done" /\ raised = "") =>
    LET N == Len(vectors_to_store) IN
      /\ Len(Upserts) = (N + batch_size - 1) \div batch_size
      /\ \A k \in 1..Len(Upserts) :
           /\ Len(Upserts[k].records) <= batch_size
           /\ k < Len(Upserts) => Len(Upserts[k].records) = batch_size
      /\ Concat(Upserts) = vectors_to_store
      /\ N = 40 => /\ Len(Upserts) = 2
                   /\ Len(Upserts[1].records) = 32
                   /\ Len(Upserts[2].records) = 8

\* C2 witness: a store of 40 vectors returned after two upserts
C2_Witness ==
  /\ sink_name = "PineconeSink"
  /\ op = "store"
  /\ pc = "done"
  /\ raised = ""
  /\ Len(vectors_to_store) = 40
  /\ Len(Upserts) = 2

\* C3: a store of N > 0 vectors that returned, returned the number of vectors
\* the service acknowledged: the sum of the upserted_count answers for
\* PineconeSink, N for SupabaseSink.
C3_StoredCount ==
  (op = "store" /\ pc = "done" /\ raised = "" /\ Len(vectors_to_store) > 0) =>
    /\ returned = PyInt(acknowledged)
    /\ sink_name = "SupabaseSink" => returned.n = Len(vectors_to_store)

\* C3 witness: a PineconeSink.store of three batches returned a count below N,
\* the service having acknowledged fewer vectors than were sent
C3_Witness ==
  /\ sink_name = "PineconeSink"
  /\ op = "store"
  /\ pc = "done"
  /\ raised = ""
  /\ Len(Upserts) = 3
  /\ returned.n = acknowledged
  /\ acknowledged < Len(vectors_to_store)
  /\ acknowledged > batch_size

\* C4: in PineconeSink.store a failed upsert is the last request of the call:
\* the call has ended with PineconeInsertionException and no count, every
\* batch sent before it was accepted and is still stored, and nothing (no
\* retry, no later batch) was sent after it.
C4_FailedUpsert ==
  sink_name = "PineconeSink" =>
    \A k \in 1..Len(requests) :
      (requests[k].call = "upsert" /\ ~requests[k].ok) =>
        /\ k = Len(requests)
        /\ pc = "done"
        /\ raised = "PineconeInsertionException"
        /\ returned = Unset
        /\ \A j \in 1..(k - 1) :
             requests[j].call = "upsert" =>
               /\ requests[j].ok
               /\ requests[j].records # requests[k].records
               /\ Range(requests[j].records) \subseteq StoredIn(namespace)

\* C4 witness: the third upsert of a store failed after two batches were stored
C4_Witness ==
  /\ sink_name = "PineconeSink"
  /\ Len(Upserts) = 3
  /\ ~Upserts[3].ok
  /\ Upserts[1].ok
  /\ Upserts[2].ok
  /\ pc = "done"

\* C5: a call of either adapter that raises, raises the domain exception of
\* its handler (ConnectionException for validation, InsertionException for
\* store, QueryException for search, IndexInfoException for info), never the
\* raw error of the client library.
C5_DomainExceptionOnly ==
  (pc = "done" /\ raised # "") => raised = DomainException

\* C6: no SupabaseSink operation ends with the client it opened still connected.
C6_ClientDisconnected ==
  (sink_name = "SupabaseSink" /\ pc = "done") => client # "connected"

\* C7: a search that has asked the service for its resolved namespace /
\* collection, which does not exist there, ends with QueryException: it returns
\* no list and raises nothing else.
C7_SearchAbsent ==
  (op = "search" /\ pc = "done" /\ Named # {}
     /\ Resolve(configured, pipeline_id) \notin present) =>
    raised = QueryException(sink_name)

\* C8: an info that has asked the service about its resolved namespace /
\* collection ends in one of two ways: it returns a NeumSinkInfo holding the
\* number of vectors stored under that name, or it raises IndexInfoException.
C8_InfoOutcomes ==
  (op = "info" /\ pc = "done" /\ Named # {}) =>
    \/ /\ raised = ""
       /\ returned = NeumSinkInfo(Cardinality(StoredIn(Resolve(configured, pipeline_id))))
    \/ raised = IndexInfoException(sink_name)

\* C9: every backend call of a PineconeSink operation (index open, upsert,
\* query, stats) is made with the credentials of the instance that issued it,
\* however two operations interleave.
C9_OwnCredentials ==
  \A c \in backend_calls : c.credentials = Credentials(c.thread)

\* C10: within a SupabaseSink operation every request made through the client
\* or a collection obtained from it is made while the client is connected, and
\* the client is disconnected at most once.
C10_NoUseAfterDisconnect ==
  sink_name = "SupabaseSink" =>
    /\ \A k \in 1..Len(requests) :
         requests[k].call # "create_client" => requests[k].client = "connected"
    /\ disconnects <= 1

====
